---- MODULE Spec2Model ----
(***************************************************************************)
(* Model of src/main.rs: compress_folder (parallel per-file pipeline,      *)
(* archive writer, console report) and decompress_folder.                  *)
(***************************************************************************)
EXTENDS Integers, Sequences, FiniteSets, TLC

(* ------------------------------ bounds --------------------------------- *)
\* longest source file, in bytes
MaxLen == 3
\* largest rayon worker pool
MaxWorkers == 2

(* ------------------------- program constants --------------------------- *)
\* main.rs:92  let mut chunk = [0u8; 8192];  (scaled down with MaxLen)
ChunkSize == 2
\* first byte of a zstd frame (magic 0xFD2FB528, little endian: 0x28)
ZstdMagic == 40

(* ------------------------------ universe ------------------------------- *)
\* a relative path longer than the 100-byte name field of a GNU header
LongPath == "long_name_over_100_bytes"
\* an entry path that leaves the output directory
EvilPath == "../../evil"
Paths == {"a.txt", "dir/b.txt", LongPath}

RECURSIVE Pattern(_)
\* file content of length n: the bytes 1, 2, ..., n (all distinct)
Pattern(n) == IF n = 0 THEN <<>> ELSE Append(Pattern(n - 1), n)
\* an empty file and a file of several chunks
Contents == {Pattern(0), Pattern(MaxLen)}
Folders == UNION {[S -> Contents] : S \in SUBSET Paths}

NoLock == "none"
NoErr == "none"

VARIABLES
    cmd,        \* Commands::Compress or Commands::Decompress (the last one run)
    folder,     \* the input folder: relative path -> file content
    enumerable, \* whether WalkDir can list the input folder
    poolSize,   \* number of rayon worker threads
    entries,    \* main.rs:54  discovered regular files
    total_size, \* main.rs:60
    progress,   \* sum of the global_pb.inc(n) calls of the workers
    tpc,        \* per file task: position inside the for_each closure
    buffer,     \* per file task: bytes read so far (main.rs:91)
    pending,    \* per file task: the FileData the task is about to push
    taskErr,    \* per file task: the per-file error it met
    stageLog,   \* per file task: the stages it has entered, in order
    lockHolder, \* owner of the results mutex
    results,    \* main.rs:71  Vec<FileData> behind the mutex
    mainPc,     \* position of the main thread
    ret,        \* value returned by compress_folder
    exitCode,   \* exit status of the compress command
    ioFault,    \* archive-level I/O failure met by compress_folder
    appended,   \* entries handed to tar.append, in order
    appendIdx,  \* index of the writer loop over results
    reportIdx,  \* index of the report loop over results
    output,     \* console lines printed so far
    finLog,     \* finalisation steps performed on the output streams
    disk,       \* the archive file on disk
    dRet,       \* value returned by decompress_folder
    dFault,     \* the error decompress_folder met
    unpackIdx,  \* number of archive entries visited by unpack
    outDir      \* files written by decompress: destination -> bytes

vars == <<cmd, folder, enumerable, poolSize, entries, total_size, progress,
          tpc, buffer, pending, taskErr, stageLog, lockHolder, results, mainPc,
          ret,
          exitCode, ioFault, appended, appendIdx, reportIdx, output, finLog,
          disk, dRet, dFault, unpackIdx, outDir>>

taskVars == <<tpc, buffer, pending, taskErr, stageLog>>
writerVars == <<appended, appendIdx, reportIdx, output, finLog, disk>>
mainVars == <<mainPc, ret, exitCode, ioFault>>
inputVars == <<cmd, folder, enumerable, poolSize>>
readerVars == <<dRet, dFault, unpackIdx, outDir>>

(* ------------------------------ helpers -------------------------------- *)
Min(a, b) == IF a < b THEN a ELSE b

RECURSIVE SumLen(_, _)
\* main.rs:60  entries.iter().map(|e| e.metadata().unwrap().len()).sum()
SumLen(f, S) ==
    IF S = {} THEN 0
    ELSE LET p == CHOOSE q \in S : TRUE
         IN Len(f[p]) + SumLen(f, S \ {p})

\* zstd::encode_all: a frame that starts with the magic and carries the data
EncodeAll(bytes) == <<ZstdMagic>> \o bytes

\* Header::set_path succeeds only for names that fit the GNU name field
PathEncodable(p) == p # LongPath

\* value of a path's bytes inside the header checksum
PathSum(p) == CASE p = "" -> 0
                [] p = "a.txt" -> 5
                [] p = "dir/b.txt" -> 9
                [] OTHER -> 24

\* Header::set_cksum: sum over the descriptor fields, never the payload
Cksum(path, size) == (PathSum(path) + size + 256) % 262144

\* Header::new_gnu()
NewGnu == [path |-> "", size |-> 0, cksum |-> 0]

NoData == [rel_path |-> "", compressed |-> <<>>, header |-> NewGnu,
           success |-> FALSE]

\* a failure branch that records the file as a success
FailedDataMarkedOk(p) == [rel_path |-> p, compressed |-> <<>>,
                          header |-> NewGnu, success |-> TRUE]

\* the FileData pushed by the open, read and compress failure branches
FailedData(p) == [rel_path |-> p, compressed |-> <<>>, header |-> NewGnu,
                  success |-> FALSE]

\* the FileData pushed by the set_path failure branch
PathFailedData(p, c) == [rel_path |-> p, compressed |-> c, header |-> NewGnu,
                         success |-> FALSE]

\* a header whose checksum is taken before set_size
BuiltDataCksumFirst(p, c) ==
    [rel_path |-> p, compressed |-> c,
     header |-> [path |-> p, size |-> Len(c), cksum |-> Cksum(p, 0)],
     success |-> TRUE]

\* main.rs:125-143  header with path, size and checksum, success entry
BuiltData(p, c) ==
    [rel_path |-> p, compressed |-> c,
     header |-> [path |-> p, size |-> Len(c), cksum |-> Cksum(p, Len(c))],
     success |-> TRUE]

\* a push that forgets the entries of failed tasks
PushResultDropFailed(list, fd) == IF fd.success THEN Append(list, fd) ELSE list

\* results.lock().unwrap().push(fd)
PushResult(list, fd) == Append(list, fd)

\* the log of a task that enters a stage (a stage entered again, as the read
\* loop does, is logged once)
Entered(log, stage) ==
    IF log # <<>> /\ log[Len(log)] = stage THEN log ELSE Append(log, stage)

\* an Err arm without its `return`: the task falls through to the next stage
OnFailureFallThrough(stage) ==
    CASE stage = "open" -> "read"
      [] stage = "read" -> "compress"
      [] stage = "compress" -> "build"
      [] OTHER -> "lock"

\* main.rs:81-87, 98-104, 115-121, 127-133  every Err arm goes to its own
\* push and returns
OnFailure(stage) == "lock"

NoDisk == [exists |-> FALSE, entries |-> <<>>, complete |-> FALSE]

InFlight == {p \in Paths : tpc[p] \notin {"absent", "todo", "done", "panicked"}}

(* ------------------------------- Init ---------------------------------- *)
\* an archive entry as tar stores it
Entry(path, data) ==
    [header |-> [path |-> path, size |-> Len(data),
                 cksum |-> Cksum(path, Len(data))],
     data |-> data]

GoodEntry == Entry("a.txt", EncodeAll(Pattern(1)))
EvilEntry == Entry(EvilPath, <<7>>)

\* archives made by someone else and handed to `decompress`
CraftedArchives ==
    {[exists |-> TRUE, entries |-> es, complete |-> c] :
        es \in {<<EvilEntry>>, <<GoodEntry, EvilEntry>>, <<EvilEntry, GoodEntry>>},
        c \in BOOLEAN}

InitCommon ==
    /\ poolSize \in 1..MaxWorkers
    /\ entries = {}
    /\ total_size = 0
    /\ progress = 0
    /\ tpc = [p \in Paths |-> "absent"]
    /\ buffer = [p \in Paths |-> <<>>]
    /\ pending = [p \in Paths |-> NoData]
    /\ taskErr = [p \in Paths |-> NoErr]
    /\ stageLog = [p \in Paths |-> <<>>]
    /\ lockHolder = NoLock
    /\ results = <<>>
    /\ ret = "none"
    /\ exitCode = -1
    /\ ioFault = "none"
    /\ appended = <<>>
    /\ appendIdx = 0
    /\ reportIdx = 0
    /\ output = <<>>
    /\ finLog = <<>>
    /\ dRet = "none"
    /\ dFault = "none"
    /\ unpackIdx = 0
    /\ outDir = <<>>

\* `compress <input_folder> <output_file>` on some folder
InitCompress ==
    /\ cmd = "compress"
    /\ folder \in Folders
    /\ enumerable \in BOOLEAN
    /\ mainPc = "enumerate"
    /\ disk = NoDisk
    /\ InitCommon

\* `decompress <input_file> <output_folder>` on an archive of foreign origin
InitDecompress ==
    /\ cmd = "decompress"
    /\ folder = <<>>
    /\ enumerable = TRUE
    /\ poolSize = 1
    /\ mainPc = "d_open"
    /\ disk \in CraftedArchives
    /\ InitCommon

Init == InitCompress \/ InitDecompress

(* ----------------------- compress_folder: set-up ----------------------- *)
\* main.rs:54-58  WalkDir, errors dropped by filter_map(Result::ok)
Enumerate ==
    /\ mainPc = "enumerate"
    /\ entries' = IF enumerable THEN DOMAIN folder ELSE {}
    /\ mainPc' = "total_size"
    /\ UNCHANGED <<inputVars, total_size, progress, taskVars, lockHolder,
                   results, ret, exitCode, ioFault, writerVars, readerVars>>

\* main.rs:60-71  every metadata() call succeeds
TotalSize ==
    /\ mainPc = "total_size"
    /\ total_size' = SumLen(folder, entries)
    /\ tpc' = [p \in Paths |-> IF p \in entries THEN "todo" ELSE "absent"]
    /\ mainPc' = "parallel"
    /\ UNCHANGED <<inputVars, stageLog, entries, progress, buffer, pending, taskErr,
                   lockHolder, results, ret, exitCode, ioFault, writerVars, readerVars>>

\* main.rs:60  metadata() of one entry fails: unwrap() panics in main
TotalSizePanic ==
    /\ mainPc = "total_size"
    /\ \E p \in entries :
         taskErr' = [taskErr EXCEPT ![p] = "MetadataFailed"]
    /\ mainPc' = "exited"
    /\ ret' = "panic"
    /\ exitCode' = 101
    /\ UNCHANGED <<inputVars, stageLog, entries, total_size, progress, tpc, buffer,
                   pending, lockHolder, results, ioFault, writerVars, readerVars>>

(* ------------------- compress_folder: the file tasks ------------------- *)
\* main.rs:74-76  a worker takes the entry; strip_prefix and metadata succeed
StartTask(p) ==
    /\ mainPc = "parallel"
    /\ tpc[p] = "todo"
    /\ Cardinality(InFlight) < poolSize
    /\ tpc' = [tpc EXCEPT ![p] = "open"]
    /\ UNCHANGED <<inputVars, stageLog, entries, total_size, progress, buffer, pending,
                   taskErr, lockHolder, results, mainVars, writerVars, readerVars>>

\* main.rs:76  entry.metadata().unwrap() panics inside the closure
StartTaskPanic(p) ==
    /\ mainPc = "parallel"
    /\ tpc[p] = "todo"
    /\ Cardinality(InFlight) < poolSize
    /\ tpc' = [tpc EXCEPT ![p] = "panicked"]
    /\ taskErr' = [taskErr EXCEPT ![p] = "MetadataFailed"]
    /\ UNCHANGED <<inputVars, stageLog, entries, total_size, progress, buffer, pending,
                   lockHolder, results, mainVars, writerVars, readerVars>>

\* main.rs:78-79, 91-92  File::open succeeds
OpenOk(p) ==
    /\ tpc[p] = "open"
    /\ tpc' = [tpc EXCEPT ![p] = "read"]
    /\ buffer' = [buffer EXCEPT ![p] = <<>>]
    /\ stageLog' = [stageLog EXCEPT ![p] = Entered(@, "open")]
    /\ UNCHANGED <<inputVars, entries, total_size, progress, pending, taskErr,
                   lockHolder, results, mainVars, writerVars, readerVars>>

\* main.rs:80-88  File::open fails
OpenFail(p) ==
    /\ tpc[p] = "open"
    /\ tpc' = [tpc EXCEPT ![p] = OnFailure("open")]
    /\ pending' = [pending EXCEPT ![p] = FailedData(p)]
    /\ taskErr' = [taskErr EXCEPT ![p] = "OpenFailed"]
    /\ stageLog' = [stageLog EXCEPT ![p] = Entered(@, "open")]
    /\ UNCHANGED <<inputVars, entries, total_size, progress, buffer,
                   lockHolder, results, mainVars, writerVars, readerVars>>

\* main.rs:94-96, 107-108  Ok(n), n > 0: the chunk is appended, progress moves
\* (a read of a regular file fills the chunk or returns what is left)
ReadChunk(p) ==
    /\ tpc[p] = "read"
    /\ Len(buffer[p]) < Len(folder[p])
    /\ LET n == Min(ChunkSize, Len(folder[p]) - Len(buffer[p]))
           chunk == SubSeq(folder[p], Len(buffer[p]) + 1, Len(buffer[p]) + n)
       IN /\ buffer' = [buffer EXCEPT ![p] = @ \o chunk]
          /\ progress' = progress + n
    /\ stageLog' = [stageLog EXCEPT ![p] = Entered(@, "read")]
    /\ UNCHANGED <<inputVars, entries, total_size, tpc, pending, taskErr,
                   lockHolder, results, mainVars, writerVars, readerVars>>

\* main.rs:95  Ok(0): end of file, the loop breaks
ReadEof(p) ==
    /\ tpc[p] = "read"
    /\ Len(buffer[p]) = Len(folder[p])
    /\ tpc' = [tpc EXCEPT ![p] = "compress"]
    /\ stageLog' = [stageLog EXCEPT ![p] = Entered(@, "read")]
    /\ UNCHANGED <<inputVars, entries, total_size, progress, buffer, pending,
                   taskErr, lockHolder, results, mainVars, writerVars, readerVars>>

\* main.rs:97-105  a chunk read fails: the partial buffer is dropped
ReadFail(p) ==
    /\ tpc[p] = "read"
    /\ tpc' = [tpc EXCEPT ![p] = OnFailure("read")]
    /\ buffer' = [buffer EXCEPT ![p] = <<>>]
    /\ pending' = [pending EXCEPT ![p] = FailedData(p)]
    /\ taskErr' = [taskErr EXCEPT ![p] = "ReadFailed"]
    /\ stageLog' = [stageLog EXCEPT ![p] = Entered(@, "read")]
    /\ UNCHANGED <<inputVars, entries, total_size, progress, lockHolder,
                   results, mainVars, writerVars, readerVars>>

\* main.rs:112-113  zstd::encode_all succeeds
CompressOk(p) ==
    /\ tpc[p] = "compress"
    /\ tpc' = [tpc EXCEPT ![p] = "build"]
    /\ pending' = [pending EXCEPT ![p].compressed = EncodeAll(buffer[p])]
    /\ buffer' = [buffer EXCEPT ![p] = <<>>]
    /\ stageLog' = [stageLog EXCEPT ![p] = Entered(@, "compress")]
    /\ UNCHANGED <<inputVars, entries, total_size, progress, taskErr,
                   lockHolder, results, mainVars, writerVars, readerVars>>

\* main.rs:114-122  zstd::encode_all fails
CompressFail(p) ==
    /\ tpc[p] = "compress"
    /\ tpc' = [tpc EXCEPT ![p] = OnFailure("compress")]
    /\ buffer' = [buffer EXCEPT ![p] = <<>>]
    /\ pending' = [pending EXCEPT ![p] = FailedData(p)]
    /\ taskErr' = [taskErr EXCEPT ![p] = "CompressError"]
    /\ stageLog' = [stageLog EXCEPT ![p] = Entered(@, "compress")]
    /\ UNCHANGED <<inputVars, entries, total_size, progress, lockHolder,
                   results, mainVars, writerVars, readerVars>>

\* main.rs:125-143  set_path succeeds, size and checksum are set
BuildOk(p) ==
    /\ tpc[p] = "build"
    /\ PathEncodable(p)
    /\ tpc' = [tpc EXCEPT ![p] = "lock"]
    /\ pending' = [pending EXCEPT ![p] = BuiltData(p, pending[p].compressed)]
    /\ stageLog' = [stageLog EXCEPT ![p] = Entered(@, "build")]
    /\ UNCHANGED <<inputVars, entries, total_size, progress, buffer, taskErr,
                   lockHolder, results, mainVars, writerVars, readerVars>>

\* main.rs:126-134  set_path fails
BuildFail(p) ==
    /\ tpc[p] = "build"
    /\ ~PathEncodable(p)
    /\ tpc' = [tpc EXCEPT ![p] = OnFailure("build")]
    /\ pending' = [pending EXCEPT
                     ![p] = PathFailedData(p, pending[p].compressed)]
    /\ taskErr' = [taskErr EXCEPT ![p] = "PathEncodingError"]
    /\ stageLog' = [stageLog EXCEPT ![p] = Entered(@, "build")]
    /\ UNCHANGED <<inputVars, entries, total_size, progress, buffer,
                   lockHolder, results, mainVars, writerVars, readerVars>>

\* a lock that never makes its caller wait
LockFreeAlways == TRUE

\* Mutex::lock returns only when no other thread holds the guard
LockFree == lockHolder = NoLock

\* results.lock().unwrap() at any of the five push sites
AcquireLock(p) ==
    /\ tpc[p] = "lock"
    /\ LockFree
    /\ lockHolder' = p
    /\ tpc' = [tpc EXCEPT ![p] = "push"]
    /\ UNCHANGED <<inputVars, stageLog, entries, total_size, progress, buffer, pending,
                   taskErr, results, mainVars, writerVars, readerVars>>

\* .push(FileData {..}); the guard is dropped at the end of the statement
Push(p) ==
    /\ tpc[p] = "push"
    /\ lockHolder = p
    /\ results' = PushResult(results, pending[p])
    /\ lockHolder' = NoLock
    /\ tpc' = [tpc EXCEPT ![p] = "done"]
    /\ UNCHANGED <<inputVars, stageLog, entries, total_size, progress, buffer, pending,
                   taskErr, mainVars, writerVars, readerVars>>

\* a parallel stage that does not wait for its tasks
NoBarrier == TRUE

\* par_iter().for_each blocks until the closure has returned for every entry
AllTasksReturned == \A p \in entries : tpc[p] = "done"

\* main.rs:144-146  for_each returns once every task has returned
JoinParallel ==
    /\ mainPc = "parallel"
    /\ AllTasksReturned
    /\ mainPc' = "create"
    /\ UNCHANGED <<inputVars, entries, total_size, progress, taskVars,
                   lockHolder, results, ret, exitCode, ioFault, writerVars, readerVars>>

\* main.rs:73  rayon resumes a task's panic in the caller once the rest ended
JoinPanic ==
    /\ mainPc = "parallel"
    /\ \A p \in entries : tpc[p] \in {"done", "panicked"}
    /\ \E p \in entries : tpc[p] = "panicked"
    /\ mainPc' = "exited"
    /\ ret' = "panic"
    /\ exitCode' = 101
    /\ UNCHANGED <<inputVars, entries, total_size, progress, taskVars,
                   lockHolder, results, ioFault, writerVars, readerVars>>

(* ------------------- compress_folder: archive writer ------------------- *)
\* main.rs:149-151  File::create and Encoder::new succeed
CreateOk ==
    /\ mainPc = "create"
    /\ disk' = [exists |-> TRUE, entries |-> <<>>, complete |-> FALSE]
    /\ mainPc' = "writer_lock"
    /\ UNCHANGED <<inputVars, entries, total_size, progress, taskVars,
                   lockHolder, results, ret, exitCode, ioFault, appended,
                   appendIdx, reportIdx, output, finLog, readerVars>>

\* main.rs:149  File::create fails: `?` returns the error, nothing is written
CreateFail ==
    /\ mainPc = "create"
    /\ ret' = "Err"
    /\ ioFault' = "create"
    /\ exitCode' = 1
    /\ mainPc' = "exited"
    /\ UNCHANGED <<inputVars, entries, total_size, progress, taskVars,
                   lockHolder, results, writerVars, readerVars>>

\* main.rs:150  Encoder::new fails: `?` returns, the created file stays empty
EncoderFail ==
    /\ mainPc = "create"
    /\ disk' = [exists |-> TRUE, entries |-> <<>>, complete |-> FALSE]
    /\ ret' = "Err"
    /\ ioFault' = "create"
    /\ exitCode' = 1
    /\ mainPc' = "exited"
    /\ UNCHANGED <<inputVars, entries, total_size, progress, taskVars,
                   lockHolder, results, appended, appendIdx, reportIdx, output,
                   finLog, readerVars>>

\* a writer loop without the filter
ShouldAppendAll(fd) == TRUE

\* main.rs:153  .filter(|f| f.success)
ShouldAppend(fd) == fd.success

\* the entry tar.append(&file.header, &file.compressed[..]) writes
TarEntry(fd) == [header |-> fd.header, data |-> fd.compressed]

\* main.rs:153  results.lock().unwrap(): the guard lives as long as the loop
WriterLock ==
    /\ mainPc = "writer_lock"
    /\ LockFree
    /\ lockHolder' = "main"
    /\ mainPc' = "append"
    /\ UNCHANGED <<inputVars, entries, total_size, progress, taskVars,
                   results, ret, exitCode, ioFault, writerVars, readerVars>>

\* main.rs:153  the filter drops a failed entry
AppendSkip ==
    /\ mainPc = "append"
    /\ appendIdx < Len(results)
    /\ ~ShouldAppend(results[appendIdx + 1])
    /\ appendIdx' = appendIdx + 1
    /\ UNCHANGED <<inputVars, entries, total_size, progress, taskVars,
                   lockHolder, results, mainVars, appended, reportIdx, output,
                   finLog, disk, readerVars>>

\* main.rs:154  tar.append succeeds
AppendOk ==
    /\ mainPc = "append"
    /\ appendIdx < Len(results)
    /\ ShouldAppend(results[appendIdx + 1])
    /\ appended' = Append(appended, TarEntry(results[appendIdx + 1]))
    /\ appendIdx' = appendIdx + 1
    /\ UNCHANGED <<inputVars, entries, total_size, progress, taskVars,
                   lockHolder, results, mainVars, reportIdx, output, finLog,
                   disk, readerVars>>

\* main.rs:154  tar.append fails: `?` returns, the streams are dropped
AppendFail ==
    /\ mainPc = "append"
    /\ appendIdx < Len(results)
    /\ ShouldAppend(results[appendIdx + 1])
    /\ ret' = "Err"
    /\ ioFault' = "append"
    /\ lockHolder' = NoLock
    /\ mainPc' = "drop_tar"
    /\ UNCHANGED <<inputVars, entries, total_size, progress, taskVars,
                   results, exitCode, writerVars, readerVars>>

\* main.rs:155-157  the writer loop ends and drops the guard; the heading of
\* the report is printed
AppendDone ==
    /\ mainPc = "append"
    /\ appendIdx = Len(results)
    /\ output' = Append(output, [kind |-> "heading", path |-> "", text |-> ""])
    /\ lockHolder' = NoLock
    /\ mainPc' = "reporter_lock"
    /\ UNCHANGED <<inputVars, entries, total_size, progress, taskVars,
                   results, ret, exitCode, ioFault, appended,
                   appendIdx, reportIdx, finLog, disk, readerVars>>

(* ---------------------- compress_folder: report ------------------------ *)
\* a report that prints OK for every entry
StatusTextAlwaysOk(fd) == "OK"

\* main.rs:162  if file.success { "OK" } else { "ERR" }
StatusText(fd) == IF fd.success THEN "OK" ELSE "ERR"

\* main.rs:158  results.lock().unwrap() of the report loop
ReporterLock ==
    /\ mainPc = "reporter_lock"
    /\ LockFree
    /\ lockHolder' = "main"
    /\ mainPc' = "report"
    /\ UNCHANGED <<inputVars, entries, total_size, progress, taskVars,
                   results, ret, exitCode, ioFault, writerVars, readerVars>>

\* main.rs:158-164  one status line per entry of results
ReportLine ==
    /\ mainPc = "report"
    /\ reportIdx < Len(results)
    /\ output' = Append(output, [kind |-> "status",
                                 path |-> results[reportIdx + 1].rel_path,
                                 text |-> StatusText(results[reportIdx + 1])])
    /\ reportIdx' = reportIdx + 1
    /\ UNCHANGED <<inputVars, entries, total_size, progress, taskVars,
                   lockHolder, results, mainVars, appended, appendIdx, finLog,
                   disk, readerVars>>

\* main.rs:164-167  the report loop ends and drops the guard; the summary
\* line, then Ok(())
Summary ==
    /\ mainPc = "report"
    /\ reportIdx = Len(results)
    /\ output' = Append(output, [kind |-> "summary", path |-> "", text |-> ""])
    /\ ret' = "Ok"
    /\ lockHolder' = NoLock
    /\ mainPc' = "drop_tar"
    /\ UNCHANGED <<inputVars, entries, total_size, progress, taskVars,
                   results, exitCode, ioFault, appended, appendIdx,
                   reportIdx, finLog, disk, readerVars>>

(* ------------- compress_folder: drop of the output streams ------------- *)
\* the fault recorded when a finalisation step fails; Drop discards the error
FinalFault(ok) == IF ok \/ ioFault # "none" THEN ioFault ELSE "finalize"

\* streams dropped in the wrong order: the encoder is finished first and the
\* tar trailer is written last
FinalStepEncoderFirst(pc) ==
    CASE pc = "drop_tar" -> "enc_finish"
      [] pc = "drop_buf" -> "buf_flush"
      [] pc = "drop_enc" -> "tar_finish"
      [] OTHER -> "file_close"

\* main.rs:149-151, 168  the Builder owns the BufWriter, which owns the
\* encoder, which owns the File: each is finalised before what it owns
FinalStep(pc) ==
    CASE pc = "drop_tar" -> "tar_finish"
      [] pc = "drop_buf" -> "buf_flush"
      [] pc = "drop_enc" -> "enc_finish"
      [] OTHER -> "file_close"

\* main.rs:168  Builder::drop: finish() writes the tar trailer
DropTar ==
    /\ mainPc = "drop_tar"
    /\ \E ok \in BOOLEAN : ioFault' = FinalFault(ok)
    /\ finLog' = Append(finLog, FinalStep(mainPc))
    /\ mainPc' = "drop_buf"
    /\ UNCHANGED <<inputVars, entries, total_size, progress, taskVars,
                   lockHolder, results, ret, exitCode, appended, appendIdx,
                   reportIdx, output, disk, readerVars>>

\* BufWriter::drop: the buffered bytes are flushed into the encoder
DropBuf ==
    /\ mainPc = "drop_buf"
    /\ \E ok \in BOOLEAN : ioFault' = FinalFault(ok)
    /\ finLog' = Append(finLog, FinalStep(mainPc))
    /\ mainPc' = "drop_enc"
    /\ UNCHANGED <<inputVars, entries, total_size, progress, taskVars,
                   lockHolder, results, ret, exitCode, appended, appendIdx,
                   reportIdx, output, disk, readerVars>>

\* AutoFinishEncoder::drop: the zstd frame is finished
DropEnc ==
    /\ mainPc = "drop_enc"
    /\ \E ok \in BOOLEAN : ioFault' = FinalFault(ok)
    /\ finLog' = Append(finLog, FinalStep(mainPc))
    /\ mainPc' = "drop_file"
    /\ UNCHANGED <<inputVars, entries, total_size, progress, taskVars,
                   lockHolder, results, ret, exitCode, appended, appendIdx,
                   reportIdx, output, disk, readerVars>>

\* File::drop closes the handle; main maps the result to the exit status
DropFile ==
    /\ mainPc = "drop_file"
    /\ finLog' = Append(finLog, FinalStep(mainPc))
    /\ disk' = [exists |-> TRUE, entries |-> appended,
                complete |-> (ioFault = "none")]
    /\ exitCode' = IF ret = "Ok" THEN 0 ELSE 1
    /\ mainPc' = "exited"
    /\ UNCHANGED <<inputVars, entries, total_size, progress, taskVars,
                   lockHolder, results, ret, ioFault, appended, appendIdx,
                   reportIdx, output, readerVars>>

(* -------------------------- decompress_folder -------------------------- *)
\* the user runs `decompress` on whatever the compress run left behind
StartDecompress ==
    /\ cmd = "compress"
    /\ mainPc = "exited"
    /\ cmd' = "decompress"
    /\ mainPc' = "d_open"
    /\ UNCHANGED <<folder, enumerable, poolSize, entries, total_size, progress,
                   taskVars, lockHolder, results, ret, exitCode, ioFault,
                   writerVars, readerVars>>

\* main.rs:171-172  File::open and Decoder::new succeed
DOpenOk ==
    /\ mainPc = "d_open"
    /\ disk.exists
    /\ mainPc' = "d_mkdir"
    /\ UNCHANGED <<inputVars, entries, total_size, progress, taskVars,
                   lockHolder, results, ret, exitCode, ioFault, writerVars,
                   readerVars>>

\* main.rs:171  File::open fails: there is no archive file
DOpenFail ==
    /\ mainPc = "d_open"
    /\ ~disk.exists
    /\ dRet' = "Err"
    /\ dFault' = "open"
    /\ mainPc' = "d_exited"
    /\ UNCHANGED <<inputVars, entries, total_size, progress, taskVars,
                   lockHolder, results, ret, exitCode, ioFault, writerVars,
                   unpackIdx, outDir>>

\* main.rs:175  fs::create_dir_all succeeds
DMkdirOk ==
    /\ mainPc = "d_mkdir"
    /\ mainPc' = "d_unpack"
    /\ UNCHANGED <<inputVars, entries, total_size, progress, taskVars,
                   lockHolder, results, ret, exitCode, ioFault, writerVars,
                   readerVars>>

\* main.rs:175  fs::create_dir_all fails
DMkdirFail ==
    /\ mainPc = "d_mkdir"
    /\ dRet' = "Err"
    /\ dFault' = "mkdir"
    /\ mainPc' = "d_exited"
    /\ UNCHANGED <<inputVars, entries, total_size, progress, taskVars,
                   lockHolder, results, ret, exitCode, ioFault, writerVars,
                   unpackIdx, outDir>>

\* tar's unpack does not follow a `..` component: such an entry is skipped
EscapesOutputDir(path) == path = EvilPath

\* the output folder after one entry has been unpacked: the payload is stored
\* as it is in the archive, below output_folder
Unpacked(dir, e) ==
    IF EscapesOutputDir(e.header.path)
    THEN dir
    ELSE [q \in DOMAIN dir \cup {e.header.path} |->
            IF q = e.header.path THEN e.data ELSE dir[q]]

\* main.rs:176  archive.unpack visits the next entry
UnpackEntry ==
    /\ mainPc = "d_unpack"
    /\ unpackIdx < Len(disk.entries)
    /\ outDir' = Unpacked(outDir, disk.entries[unpackIdx + 1])
    /\ unpackIdx' = unpackIdx + 1
    /\ UNCHANGED <<inputVars, entries, total_size, progress, taskVars,
                   lockHolder, results, mainVars, writerVars, dRet, dFault>>

\* main.rs:176  the zstd stream of an unfinished archive ends early: unpack
\* returns the decoder's error after the entries it could read
UnpackDecodeError ==
    /\ mainPc = "d_unpack"
    /\ ~disk.complete
    /\ dRet' = "Err"
    /\ dFault' = "decode"
    /\ mainPc' = "d_exited"
    /\ UNCHANGED <<inputVars, entries, total_size, progress, taskVars,
                   lockHolder, results, ret, exitCode, ioFault, writerVars,
                   unpackIdx, outDir>>

\* main.rs:176-178  unpack reaches the end of the archive
UnpackDone ==
    /\ mainPc = "d_unpack"
    /\ disk.complete
    /\ unpackIdx = Len(disk.entries)
    /\ dRet' = "Ok"
    /\ mainPc' = "d_exited"
    /\ UNCHANGED <<inputVars, entries, total_size, progress, taskVars,
                   lockHolder, results, ret, exitCode, ioFault, writerVars,
                   dFault, unpackIdx, outDir>>

\* main.rs:45-50  exit status of the decompress command
DExitCode == CASE dRet = "Ok" -> 0
               [] dRet = "Err" -> 1
               [] OTHER -> -1

TaskStep(p) ==
    \/ StartTask(p) \/ StartTaskPanic(p)
    \/ OpenOk(p) \/ OpenFail(p)
    \/ ReadChunk(p) \/ ReadEof(p) \/ ReadFail(p)
    \/ CompressOk(p) \/ CompressFail(p)
    \/ BuildOk(p) \/ BuildFail(p)
    \/ AcquireLock(p) \/ Push(p)

Next ==
    \/ Enumerate \/ TotalSize \/ TotalSizePanic
    \/ \E p \in Paths : TaskStep(p)
    \/ JoinParallel \/ JoinPanic
    \/ CreateOk \/ CreateFail \/ EncoderFail
    \/ WriterLock \/ AppendSkip \/ AppendOk \/ AppendFail \/ AppendDone
    \/ ReporterLock \/ ReportLine \/ Summary
    \/ DropTar \/ DropBuf \/ DropEnc \/ DropFile
    \/ StartDecompress \/ DOpenOk \/ DOpenFail \/ DMkdirOk \/ DMkdirFail
    \/ UnpackEntry \/ UnpackDecodeError \/ UnpackDone

Spec == Init /\ [][Next]_vars

\* the worker pool and the main thread keep running: some thread that can
\* take a step eventually takes one
FairSpec == Init /\ [][Next]_vars /\ WF_vars(Next)

(* ============================== claims ================================= *)
\* number of entries of the result list that carry the relative path p
PushCount(p) == Cardinality({i \in 1..Len(results) : results[i].rel_path = p})

\* for_each has returned to compress_folder
ParallelReturned ==
    mainPc \notin {"enumerate", "total_size", "parallel"} /\ ret # "panic"

\* C1: a file task that has returned from the closure has pushed exactly one
\* FileData, a task that has not returned has pushed none, and once for_each
\* has returned the result list holds exactly one entry per discovered file.
C1_EveryTaskPushesOnce ==
    /\ \A p \in Paths : PushCount(p) = IF tpc[p] = "done" THEN 1 ELSE 0
    /\ ParallelReturned =>
          /\ Len(results) = Cardinality(entries)
          /\ \A p \in entries : PushCount(p) = 1

\* the parallel stage has just ended on three files, one per kind of outcome
C1_Witness ==
    /\ mainPc = "create"
    /\ poolSize = 2
    /\ Len(results) = 3
    /\ \E i, j, k \in 1..3 :
          /\ results[i].success
          /\ taskErr[results[j].rel_path] = "ReadFailed"
          /\ taskErr[results[k].rel_path] = "PathEncodingError"

\* the compress command has ended (returned or panicked)
CompressEnded == exitCode # -1

\* the per-file error kinds of the specification
PerFileKinds == {"OpenFailed", "ReadFailed", "CompressError", "PathEncodingError"}

\* C2: a failure confined to one file (metadata lookup, open, read,
\* compression, path encoding) never aborts the compress run: the run does not
\* panic and, once the parallel stage is over, every discovered file has
\* contributed its entry.
C2_PerFileFailuresIsolated ==
    (\E p \in Paths : taskErr[p] # NoErr) =>
        /\ ret # "panic"
        /\ mainPc \notin {"enumerate", "total_size", "parallel"} =>
              \A q \in entries : PushCount(q) = 1

\* X is the only file that met an error, and the error is an open or read one
OnlyUnreadable(X) ==
    /\ taskErr[X] \in {"OpenFailed", "ReadFailed"}
    /\ \A q \in entries \ {X} : taskErr[q] = NoErr

\* indices of the result entries marked successful
OkEntries == {i \in 1..Len(results) : results[i].success}

\* paths of the entries stored in the archive on disk
ArchivedPaths == {disk.entries[i].header.path : i \in 1..Len(disk.entries)}

\* status lines of the console report
StatusLines(text) ==
    {i \in 1..Len(output) : output[i].kind = "status" /\ output[i].text = text}

\* C3: if exactly one discovered file X is unreadable and the others are
\* processed without error, then N-1 result entries are marked OK and the one
\* of X is marked ERR; when the archive is written without I/O error the
\* report shows the same and the archive holds the N-1 other files and not X.
C3_OneUnreadableFile ==
    \A X \in entries :
        (OnlyUnreadable(X) /\ ParallelReturned) =>
            /\ Cardinality(OkEntries) = Cardinality(entries) - 1
            /\ \A i \in 1..Len(results) :
                  results[i].success <=> results[i].rel_path # X
            /\ (CompressEnded /\ ioFault = "none") =>
                  /\ exitCode = 0
                  /\ Cardinality(StatusLines("OK")) = Cardinality(entries) - 1
                  /\ \A i \in StatusLines("ERR") : output[i].path = X
                  /\ Cardinality(StatusLines("ERR")) = 1
                  /\ disk.complete
                  /\ Len(disk.entries) = Cardinality(entries) - 1
                  /\ ArchivedPaths = entries \ {X}

\* two files, one of them failed to open, the run has ended
C3_Witness ==
    /\ CompressEnded
    /\ ioFault = "none"
    /\ Cardinality(entries) = 2
    /\ \E X \in entries : OnlyUnreadable(X) /\ taskErr[X] = "OpenFailed"

RECURSIVE SuccessfulEntries(_)
\* the header and payload of the successful entries of a list, in its order
SuccessfulEntries(list) ==
    IF list = <<>> THEN <<>>
    ELSE LET rest == SuccessfulEntries(SubSeq(list, 1, Len(list) - 1))
             last == list[Len(list)]
         IN IF last.success
            THEN Append(rest, [header |-> last.header, data |-> last.compressed])
            ELSE rest

\* the writer loop has gone through the whole result list
WriterLoopDone == mainPc \in {"reporter_lock", "report"} \/ ret = "Ok"

\* C4: the entries appended to the archive are the successful entries of the
\* part of the result list the writer loop has visited, in list order; when
\* the loop has ended that part is the whole list.
C4_ArchiveIsSuccessfulResults ==
    /\ appended = SuccessfulEntries(SubSeq(results, 1, appendIdx))
    /\ WriterLoopDone => appended = SuccessfulEntries(results)

\* the writer loop ended on a list whose second entry failed and whose other
\* two entries were appended
C4_Witness ==
    /\ WriterLoopDone
    /\ Len(results) = 3
    /\ ~results[2].success
    /\ Len(appended) = 2

\* C5: round trip. When a folder of regular readable files was compressed
\* without any error and the archive was decompressed without error, every
\* file of the folder is in the output folder under its relative path with
\* exactly its original bytes.
C5_RoundTrip ==
    ( /\ exitCode = 0
      /\ enumerable
      /\ ioFault = "none"
      /\ \A p \in Paths : taskErr[p] = NoErr
      /\ mainPc = "d_exited"
      /\ dRet = "Ok" ) =>
        \A p \in DOMAIN folder : p \in DOMAIN outDir /\ outDir[p] = folder[p]

\* C6: the compress command exits non-zero whenever the output file cannot
\* be created or the input folder cannot be enumerated, and exits 0 when only
\* individual files failed with one of the per-file errors.
C6_ExitStatusContract ==
    CompressEnded =>
        /\ (ioFault = "create" \/ ~enumerable) => exitCode # 0
        /\ ( /\ enumerable
             /\ ioFault = "none"
             /\ \A p \in Paths : taskErr[p] \in PerFileKinds \cup {NoErr} ) =>
               exitCode = 0

\* C7: an I/O error on the output archive (creation, append, finalisation)
\* is fatal: compress returns an error and no summary line is printed.
C7_ArchiveIoErrorsFatal ==
    (CompressEnded /\ ioFault # "none") =>
        /\ ret = "Err"
        /\ exitCode # 0
        /\ \A i \in 1..Len(output) : output[i].kind # "summary"

\* the status line the report owes to a result entry
ExpectedLine(fd) ==
    [kind |-> "status", path |-> fd.rel_path,
     text |-> IF fd.success THEN "OK" ELSE "ERR"]

\* C8: the console shows the heading, then one status line per visited
\* result entry in list order (OK exactly for the successful ones); when
\* compress_folder returns Ok there is one status line per discovered file
\* and the summary line is the last line, after all of them.
C8_ReportLines ==
    /\ \A i \in 1..Len(output) :
          \/ i = 1 /\ output[i].kind = "heading"
          \/ /\ 1 < i /\ i <= reportIdx + 1
             /\ output[i] = ExpectedLine(results[i - 1])
          \/ i = reportIdx + 2 /\ output[i].kind = "summary" /\ ret = "Ok"
    /\ ret = "Ok" =>
          /\ reportIdx = Len(results)
          /\ Len(results) = Cardinality(entries)
          /\ Len(output) = Len(results) + 2

\* compress_folder has returned Ok after reporting one OK and two ERR lines
C8_Witness ==
    /\ ret = "Ok"
    /\ Cardinality(StatusLines("OK")) = 1
    /\ Cardinality(StatusLines("ERR")) = 2

\* the run found no file or every file failed
ZeroSuccesses == ParallelReturned /\ OkEntries = {}

\* C9: a compress run with zero successful entries whose output meets no I/O
\* error creates and finalises a valid archive with zero entries and exits 0;
\* decompressing that archive into a directory that can be created returns Ok
\* and writes no file.
C9_EmptyArchive ==
    (CompressEnded /\ ZeroSuccesses /\ ioFault = "none") =>
        /\ ret = "Ok"
        /\ exitCode = 0
        /\ disk = [exists |-> TRUE, entries |-> <<>>, complete |-> TRUE]
        /\ finLog = <<"tar_finish", "buf_flush", "enc_finish", "file_close">>
        /\ (mainPc = "d_exited" /\ dFault # "mkdir") =>
              dRet = "Ok" /\ outDir = <<>>

\* every file of a two-file folder failed, the archive was written and then
\* decompressed
C9_Witness ==
    /\ CompressEnded
    /\ ZeroSuccesses
    /\ ioFault = "none"
    /\ Len(results) = 2
    /\ mainPc = "d_exited"
    /\ dRet = "Ok"

\* the empty folder was compressed and the archive decompressed
C9_WitnessEmptyFolder ==
    /\ CompressEnded
    /\ enumerable
    /\ folder = <<>>
    /\ ioFault = "none"
    /\ mainPc = "d_exited"
    /\ dRet = "Ok"

\* C10: when the archive holds an entry whose path escapes the output
\* directory, decompress returns an error to the caller and writes no file
\* outside the output directory.
C10_EscapingEntryRejected ==
    ( /\ mainPc = "d_exited"
      /\ \E i \in 1..Len(disk.entries) :
            disk.entries[i].header.path = EvilPath ) =>
        /\ dRet = "Err"
        /\ EvilPath \notin DOMAIN outDir

\* C11: when the parallel stage has completed, the progress counter (the sum
\* of the workers' increments) equals the total computed up front, also in
\* runs where files fail to open or fail while being read.
C11_ProgressReachesTotal ==
    ParallelReturned => progress = total_size

\* C13: every entry of the result list with success = false has an empty
\* compressed payload.
C13_FailedPayloadEmpty ==
    \A i \in 1..Len(results) :
        ~results[i].success => results[i].compressed = <<>>

\* C16: every successful result entry has a header whose size is the length
\* of the entry's payload, whose path is the entry's relative path, and whose
\* checksum is the checksum of that final path and size.
C16_HeaderMirrorsPayload ==
    \A i \in 1..Len(results) :
        results[i].success =>
            /\ results[i].header.size = Len(results[i].compressed)
            /\ results[i].header.path = results[i].rel_path
            /\ results[i].header.cksum =
                  Cksum(results[i].header.path, results[i].header.size)

\* two successful entries, one of them of a file of several chunks
C16_Witness ==
    /\ Cardinality(OkEntries) = 2
    /\ \E i \in OkEntries : Len(results[i].compressed) = MaxLen + 1

\* the stages of a file task, in the order of the closure
Stages == <<"open", "read", "compress", "build">>

\* the stage whose failure a per-file error reports
FailedStage(err) ==
    CASE err = "OpenFailed" -> 1
      [] err = "ReadFailed" -> 2
      [] err = "CompressError" -> 3
      [] err = "PathEncodingError" -> 4

\* C12: the stages a task has entered are always an initial part of open,
\* read, compress, build; a task that met a failure has entered no stage after
\* the failed one; and once it has returned, its one entry in the result list
\* carries its own relative path with success = false.
C12_StagesInOrderShortCircuit ==
    \A p \in Paths :
        /\ Len(stageLog[p]) <= Len(Stages)
        /\ stageLog[p] = SubSeq(Stages, 1, Len(stageLog[p]))
        /\ taskErr[p] \in PerFileKinds =>
              /\ Len(stageLog[p]) = FailedStage(taskErr[p])
              /\ tpc[p] \in {"lock", "push", "done"}
              /\ pending[p].rel_path = p /\ ~pending[p].success
              /\ tpc[p] = "done" =>
                    \A i \in 1..Len(results) :
                        results[i].rel_path = p => ~results[i].success

\* three tasks have returned: one failed in open, one in compress, one in
\* set_path
C12_Witness ==
    /\ \A p \in Paths : tpc[p] = "done"
    /\ \E p, q, r \in Paths :
          /\ taskErr[p] = "OpenFailed"
          /\ taskErr[q] = "CompressError"
          /\ taskErr[r] = "PathEncodingError"

\* the order in which the output streams have to be finalised
FinalOrder == <<"tar_finish", "buf_flush", "enc_finish", "file_close">>

\* C14: the finalisation steps performed so far are always an initial part
\* of: tar finished, buffer flushed, encoder finished, file closed; and every
\* execution that built the output streams has performed all four, in that
\* order, when compress_folder has returned, on the normal path and after a
\* failed append.
C14_FinalisedBeforeClose ==
    /\ Len(finLog) <= Len(FinalOrder)
    /\ finLog = SubSeq(FinalOrder, 1, Len(finLog))
    /\ (CompressEnded /\ ret # "panic" /\ ioFault # "create") =>
          finLog = FinalOrder
    /\ finLog # <<>> => ret \in {"Ok", "Err"}

\* compress_folder returned early from a failed append and the file is closed
C14_Witness ==
    /\ CompressEnded
    /\ ioFault = "append"
    /\ Len(appended) = 1
    /\ finLog = FinalOrder

\* the workers inside the critical section
Pushing == {p \in Paths : tpc[p] = "push"}

\* C15: at most one worker is inside the critical section; a worker holds
\* the result lock exactly while it is at its push, has not pushed yet when it
\* holds it, and holds it at no other position of its task.
C15_LockExclusiveAndMinimal ==
    /\ Cardinality(Pushing) <= 1
    /\ \A p \in Paths : (lockHolder = p) <=> (tpc[p] = "push")
    /\ \A p \in Pushing : PushCount(p) = 0
    /\ lockHolder = "main" => Pushing = {} /\ InFlight = {}

\* one worker holds the lock while another waits for it
C15_Witness ==
    \E p, q \in Paths :
        /\ lockHolder = p
        /\ tpc[p] = "push"
        /\ tpc[q] = "lock"

\* C17: under fair scheduling every file task of a compress run reaches a
\* push and returns, no thread waits for the result lock forever, and the run
\* goes on to the writer.
C17_EveryRunReachesWriter ==
    /\ \A p \in Paths : (tpc[p] = "todo") ~> (tpc[p] = "done")
    /\ \A p \in Paths : (tpc[p] = "lock") ~> (tpc[p] = "done")
    /\ (mainPc = "parallel") ~> (mainPc = "create")
    /\ (mainPc = "writer_lock") ~> (mainPc = "append")
    /\ (mainPc = "reporter_lock") ~> (mainPc = "report")

\* the part of C17 about the lock alone: under fair scheduling a thread that
\* waits for the result lock gets it, and the parallel stage always ends
LockWaitsEnd ==
    /\ \A p \in Paths : (tpc[p] = "lock") ~> (tpc[p] = "done")
    /\ (mainPc = "parallel") ~> (mainPc \in {"create", "exited"})
    /\ (mainPc = "writer_lock") ~> (mainPc = "append")
    /\ (mainPc = "reporter_lock") ~> (mainPc = "report")

\* the writer or the reporter has left a trace
WriterStarted == disk.exists \/ appended # <<>> \/ output # <<>>

\* C18: whenever the output file exists, an entry has been appended or a
\* line has been printed, every file task has returned and has its entry in
\* the result list; and no step taken after the parallel stage changes the
\* result list.
C18_ParallelStageIsBarrier ==
    /\ [](WriterStarted =>
            \A p \in entries : tpc[p] = "done" /\ PushCount(p) = 1)
    /\ [][mainPc \notin {"enumerate", "total_size", "parallel"} =>
            results' = results]_vars

\* the report is being printed for three files whose tasks have all returned
C18_Witness ==
    /\ mainPc = "report"
    /\ reportIdx = 2
    /\ Len(appended) = 2
    /\ Len(results) = 3
====
